---- MODULE Spec2Model ----
(***************************************************************************)
(* Conversational tool-orchestration and memory-window engine of           *)
(* genesis-ai-app: the history window (SessionService.get_history), the    *)
(* chain sanitizer (format_messages_with_memory), the tool dispatcher      *)
(* (asyncio.gather over execute_tool) and one turn (llm_with_tools) over   *)
(* the chat_messages table.                                                *)
(***************************************************************************)
EXTENDS Integers, Sequences, FiniteSets, TLC

\* ------------------------------------------------------------------------
\* Bounds of the model
\* ------------------------------------------------------------------------
MaxN == 4          \* largest max_history_messages explored
MaxTurns == 2      \* turns (llm_with_tools requests) per behaviour
MaxCalls == 3      \* tool calls in one decision
MaxLen == 4        \* length of an arbitrary history given to the sanitizer
MaxRows == 3       \* rows of an arbitrary chat_messages table
MaxCallers == 2    \* concurrent callers of get_or_create_session
MaxRegs == 4       \* calls of ToolRegistry.register
MaxRequests == 3   \* HTTP requests passing the cleanup middleware

\* ------------------------------------------------------------------------
\* Messages (the dicts that flow through the pipeline)
\* ------------------------------------------------------------------------
NoId == 0               \* tool_call_id / id that is None or absent (falsy)
NoName == "none"        \* name that is None or absent (falsy)
NoContent == "<nokey>"  \* dict without a "content" key

Msg(r, c, h, t, i, n) ==
    [role |-> r, content |-> c, htc |-> h, tcs |-> t, tcid |-> i, name |-> n]

PlainMsg(r, c) == Msg(r, c, FALSE, <<>>, NoId, NoName)
AsstCalls(c, t) == Msg("assistant", c, TRUE, t, NoId, NoName)
ToolMsg(c, i, n) == Msg("tool", c, FALSE, <<>>, i, n)
TC(i, n) == [id |-> i, name |-> n]

Reverse(s) == [k \in 1..Len(s) |-> s[Len(s) + 1 - k]]
Take(s, n) == SubSeq(s, 1, IF n < Len(s) THEN n ELSE Len(s))

\* ------------------------------------------------------------------------
\* Chain sanitizer of format_messages_with_memory
\* ------------------------------------------------------------------------
\* the match rule: tool_call_id equal and truthy, or name equal and truthy
MatchesCall(tc, m) ==
    \/ tc.id # NoId /\ tc.id = m.tcid
    \/ tc.name # NoName /\ tc.name = m.name

MatchesAny(tcs, m) == \E k \in 1..Len(tcs) : MatchesCall(tcs[k], m)

\* pass 1: a tool message is kept when some earlier assistant message of the
\* raw history has a tool_calls entry matching it
HasValidAssistant(h, i) ==
    \E j \in 1..(i - 1) :
        /\ h[j].role = "assistant"
        /\ h[j].htc
        /\ MatchesAny(h[j].tcs, h[i])

RECURSIVE Pass1From(_, _)
Pass1From(h, i) ==
    IF i > Len(h) THEN <<>>
    ELSE IF h[i].role = "tool" /\ ~HasValidAssistant(h, i)
         THEN Pass1From(h, i + 1)
         ELSE <<h[i]>> \o Pass1From(h, i + 1)

Pass1(h) == Pass1From(h, 1)

\* mutant: the forward scan takes every tool message, matching or not
RECURSIVE CollectAllTools(_, _, _)
CollectAllTools(v, tcs, j) ==
    IF j > Len(v) THEN <<>>
    ELSE IF v[j].role = "tool"
         THEN <<v[j]>> \o CollectAllTools(v, tcs, j + 1)
         ELSE IF v[j].role \in {"user", "assistant"}
              THEN <<>>
              ELSE CollectAllTools(v, tcs, j + 1)

\* pass 2, the forward scan from an assistant message at i: the tool messages
\* matching one of its entries, up to the next user/assistant message
RECURSIVE CollectResponses(_, _, _)
CollectResponses(v, tcs, j) ==
    IF j > Len(v) THEN <<>>
    ELSE IF v[j].role = "tool"
         THEN (IF MatchesAny(tcs, v[j]) THEN <<v[j]>> ELSE <<>>)
              \o CollectResponses(v, tcs, j + 1)
         ELSE IF v[j].role \in {"user", "assistant"}
              THEN <<>>
              ELSE CollectResponses(v, tcs, j + 1)

\* pass 2, incomplete chain: the number of tool messages directly after i
RECURSIVE SkipTools(_, _)
SkipTools(v, j) ==
    IF j > Len(v) THEN 0
    ELSE IF v[j].role = "tool" THEN 1 + SkipTools(v, j + 1) ELSE 0

\* mutant: the copied tool message loses its name
ToolOutNoName(m) == ToolMsg(m.content, m.tcid, NoName)

ToolOut(m) == ToolMsg(m.content, m.tcid, m.name)
AsstOut(m) == AsstCalls(IF m.content = NoContent THEN "" ELSE m.content, m.tcs)

\* the completeness test of pass 2 (a count comparison)
ChainComplete(tcs, resp) == Len(resp) = Len(tcs)

\* pass 2: [ok, out]; ok = FALSE when a msg["content"] lookup raises KeyError
RECURSIVE Pass2From(_, _, _)
Pass2From(v, i, acc) ==
    IF i > Len(v) THEN [ok |-> TRUE, out |-> acc]
    ELSE LET msg == v[i] IN
      IF msg.role = "assistant" /\ msg.htc
      THEN LET resp == CollectResponses(v, msg.tcs, i + 1) IN
           IF ChainComplete(msg.tcs, resp)
           THEN IF \E k \in 1..Len(resp) : resp[k].content = NoContent
                THEN [ok |-> FALSE, out |-> <<>>]
                ELSE Pass2From(v, i + Len(resp) + 1,
                       acc \o <<AsstOut(msg)>>
                           \o [k \in 1..Len(resp) |-> ToolOut(resp[k])])
           ELSE Pass2From(v, i + SkipTools(v, i + 1) + 1, acc)
      ELSE IF msg.role = "tool"
           THEN Pass2From(v, i + 1, acc)
           ELSE IF msg.content = NoContent
                THEN [ok |-> FALSE, out |-> <<>>]
                ELSE Pass2From(v, i + 1,
                               Append(acc, PlainMsg(msg.role, msg.content)))

Pass2(v) == Pass2From(v, 1, <<>>)

\* mutant: when pass 2 raises, the result of pass 1 is sent instead
SanitizeFallsBack(h) == LET r == Pass2(Pass1(h)) IN IF r.ok THEN r.out ELSE Pass1(h)

\* the history part of the list sent to the model: nothing when the
\* sanitizer raised (the except branch keeps only the system prompt)
Sanitize(h) == LET r == Pass2(Pass1(h)) IN IF r.ok THEN r.out ELSE <<>>
SanitizeRaises(h) == ~Pass2(Pass1(h)).ok

\* ------------------------------------------------------------------------
\* The chat_messages table and SessionService.get_history
\* ------------------------------------------------------------------------
SessionIds == {"s1"}
AllSessionIds == {"s1", "s2"}

\* ChatMessage.content holds json.dumps(msg); json.loads gives the dict back
\* when the text is JSON and raises JSONDecodeError otherwise
Dumps(m) == <<"json", m>>
Parses(c) == c[1] = "json"
Loads(c) == c[2]

\* a row of chat_messages; its id is its position in db
Row(s, ts, m) == [sid |-> s, created_at |-> ts, role |-> m.role, content |-> Dumps(m)]

\* rows of one session with a given created_at, in id order
RowsAt(rows, s, ts) == SelectSeq(rows, LAMBDA r : r.sid = s /\ r.created_at = ts)

RECURSIVE OrderedFrom(_, _, _)
OrderedFrom(rows, s, ts) ==
    IF ts > MaxTurns THEN <<>>
    ELSE RowsAt(rows, s, ts) \o OrderedFrom(rows, s, ts + 1)

\* WHERE session_id = s ORDER BY created_at, id (oldest first)
OrderedLog(rows, s) == OrderedFrom(rows, s, 0)

\* mutant: the query has no WHERE session_id clause
RecentDescAnySession(rows, s, n) ==
    Take(Reverse([k \in 1..Len(rows) |-> rows[k]]), 2 * n)

\* mutant: the query fetches three times the window size
RecentDescWide(rows, s, n) == Take(Reverse(OrderedLog(rows, s)), 3 * n)

\* mutant: the query orders oldest first
RecentAsc(rows, s, n) == Take(OrderedLog(rows, s), 2 * n)

\* ORDER BY created_at DESC, id DESC LIMIT 2 * max_history_messages
RecentDesc(rows, s, n) == Take(Reverse(OrderedLog(rows, s)), 2 * n)

\* mutant: only a tool message at the edge extends the window
InChainToolOnly(d) == d.role = "tool"

\* the boundary test of the expansion loop
InChain(d) == d.role = "tool" \/ (d.role = "assistant" /\ d.htc)

\* mutant: the loop has no break, it runs to the end of the buffer
RECURSIVE ExpandNoBreak(_, _, _)
ExpandNoBreak(recent, final, idx) ==
    IF idx < Len(recent)
    THEN ExpandNoBreak(recent, Append(final, recent[idx + 1]), idx + 1)
    ELSE final

\* the while loop of get_history; idx is the 1-based index in recent of the
\* oldest row of the window
RECURSIVE Expand(_, _, _)
Expand(recent, final, idx) ==
    IF idx < Len(recent)
    THEN LET oldest == final[Len(final)] IN
         IF Parses(oldest.content) /\ InChain(Loads(oldest.content))
         THEN Expand(recent, Append(final, recent[idx + 1]), idx + 1)
         ELSE final
    ELSE final

\* a row whose content is not JSON (text is what the column holds)
RawRow(s, ts, role, text) ==
    [sid |-> s, created_at |-> ts, role |-> role, content |-> <<"raw", text>>]

\* a row as get_history returns it: the parsed dict, or for text that is not
\* JSON the dict {"role": msg.role, "content": msg.content}
RowDict(r) == IF Parses(r.content) THEN Loads(r.content)
              ELSE PlainMsg(r.role, r.content[2])

\* mutant: a row that does not parse is left out of the result
GetHistoryRowsSkipping(recent, n) ==
    IF Len(recent) = 0 THEN <<>>
    ELSE LET truncated == Take(recent, n)
             final == Expand(recent, truncated, Len(truncated))
             ordered == SelectSeq(Reverse(final), LAMBDA r : Parses(r.content))
         IN [k \in 1..Len(ordered) |-> RowDict(ordered[k])]

\* mutant: the window is returned newest first (no reversal)
GetHistoryRowsNewestFirst(recent, n) ==
    IF Len(recent) = 0 THEN <<>>
    ELSE LET truncated == Take(recent, n)
             final == Expand(recent, truncated, Len(truncated))
         IN [k \in 1..Len(final) |-> RowDict(final[k])]

GetHistoryRows(recent, n) ==
    IF Len(recent) = 0 THEN <<>>
    ELSE LET truncated == Take(recent, n)
             final == Expand(recent, truncated, Len(truncated))
             ordered == Reverse(final)
         IN [k \in 1..Len(ordered) |-> RowDict(ordered[k])]

GetHistory(rows, s, n) == GetHistoryRows(RecentDesc(rows, s, n), n)

\* ------------------------------------------------------------------------
\* Tool dispatcher: execute_tool under asyncio.gather
\* ------------------------------------------------------------------------
Registered == {"calculate"}          \* names tool_registry.get_tool finds
ToolNames == {"calculate", "nosuch"}
\* function.arguments: JSON the tool accepts, text json.loads rejects, JSON
\* whose keys the tool's signature rejects (the call raises TypeError)
ArgKinds == {"valid", "notjson", "badkw"}

Call(i, n, a) == [id |-> i, name |-> n, args |-> a]

\* what one execute_tool coroutine ends with: a returned dict, or an
\* exception leaving the coroutine
Returned(m) == [raised |-> FALSE, msg |-> m]
Raised == [raised |-> TRUE, msg |-> PlainMsg("none", "none")]
\* a slot of gather whose coroutine has not finished
Running == [raised |-> FALSE, msg |-> PlainMsg("none", "running")]

\* mutant: execute_tool without its try/except
ExecuteToolNoCatch(c) ==
    IF c.name \notin Registered
    THEN Returned(ToolMsg("error: no such tool", c.id, c.name))
    ELSE IF c.args \in {"notjson", "badkw"}
         THEN Raised
         ELSE Returned(ToolMsg("result", c.id, c.name))

ExecuteTool(c) ==
    IF c.name \notin Registered
    THEN Returned(ToolMsg("error: no such tool", c.id, c.name))
    ELSE IF c.args = "notjson"
         THEN Returned(ToolMsg("failed: JSONDecodeError", c.id, c.name))
         ELSE IF c.args = "badkw"
              THEN Returned(ToolMsg("failed: TypeError", c.id, c.name))
              ELSE Returned(ToolMsg("result", c.id, c.name))

\* mutant: results are collected in completion order
StoreInCompletionOrder(slots, i, r) ==
    LET free == CHOOSE k \in 1..Len(slots) :
                    slots[k] = Running /\ \A j \in 1..(k - 1) : slots[j] # Running
    IN [slots EXCEPT ![free] = r]

\* gather keeps one result slot per awaitable, in argument order
StoreResult(slots, i, r) == [slots EXCEPT ![i] = r]

\* mutant: gather returns as soon as one coroutine has finished
AnyDone(slots) == \E k \in 1..Len(slots) : slots[k] # Running

AllDone(slots) == \A k \in 1..Len(slots) : slots[k] # Running
AnyRaised(slots) == \E k \in 1..Len(slots) : slots[k].raised
ResultMsgs(slots) == [k \in 1..Len(slots) |-> slots[k].msg]

\* ------------------------------------------------------------------------
\* One turn: llm_with_tools
\* ------------------------------------------------------------------------
Turns == 1..MaxTurns
Query == "q"
SysPrompt == "sys"
Fallback == "sorry, no answer"         \* _handle_direct_answer
Apology == "sorry, summary failed"     \* get_summary_from_tool_results
NoneText == "<None>"                   \* message.content that is None

UserMsg == PlainMsg("user", Query)

\* the assistant message _handle_tool_calls builds from the decision
AssistantWithCalls(d) ==
    AsstCalls(d.content, [k \in 1..Len(d.calls) |-> TC(d.calls[k].id, d.calls[k].name)])

\* format_messages_with_memory: [system prompt?] + sanitized window + [query]
BuildContext(rows, s, n, sys) ==
    (IF sys THEN <<PlainMsg("system", SysPrompt)>> ELSE <<>>)
    \o Sanitize(GetHistory(rows, s, n))
    \o <<UserMsg>>

\* how the try block of format_messages_with_memory ends: the history is
\* read and sanitized, get_history raises, or the sanitizer raises
HistoryOutcome(rows, s, n, ok) ==
    IF ~ok THEN "unreadable"
    ELSE IF SanitizeRaises(GetHistory(rows, s, n)) THEN "unsanitized" ELSE "read"

SystemMsgs(msgs) == SelectSeq(msgs, LAMBDA m : m.role = "system")

\* messages_for_summary of _handle_tool_calls
SummaryContext(ctx, d, results) ==
    SystemMsgs(ctx) \o <<UserMsg, AssistantWithCalls(d)>> \o results

\* mutant: the batch leaves out the assistant message recording the calls
ToolBatchWithoutCalls(d, results, final) ==
    <<UserMsg>> \o results \o <<PlainMsg("assistant", final)>>

ToolBatch(d, results, final) ==
    <<UserMsg, AssistantWithCalls(d)>> \o results \o <<PlainMsg("assistant", final)>>

DirectBatch(final) == <<UserMsg, PlainMsg("assistant", final)>>

\* mutant: the batch is committed message by message and the last one fails
CommitRowsPartial(rows, s, ts, batch) ==
    rows \o [k \in 1..(Len(batch) - 1) |-> Row(s, ts, batch[k])]

\* mutant: the commit replaces the table by the batch
CommitRowsOverwrite(rows, s, ts, batch) ==
    [k \in 1..Len(batch) |-> Row(s, ts, batch[k])]

\* db.add_all + db.commit: the rows of the batch become visible together
CommitRows(rows, s, ts, batch) ==
    rows \o [k \in 1..Len(batch) |-> Row(s, ts, batch[k])]

\* building tools_called: json.loads(tc.function.arguments) of every call
ToolsCalledRaises(d) ==
    \E k \in 1..Len(d.calls) : d.calls[k].args = "notjson"

\* the success log line takes len(final_answer), which raises on None
ResponseLengthRaises(final) == final = NoneText

\* ------------------------------------------------------------------------
\* State
\* ------------------------------------------------------------------------
VARIABLES
    env,      \* the scenario explored, one of Envs
    N,        \* settings.llm.max_history_messages
    db,       \* committed rows of chat_messages, in id order
    turn,     \* per request of llm_with_tools: its locals and position
    rdLog,    \* rows visible to the last such request's query, before LIMIT
    rdWindow, \* what that request's get_history returned
    sanPc,    \* sanitizer runs done on sanIn: 0, 1 or 2
    sanIn,    \* an arbitrary history handed to the sanitizer
    sanOut,   \* the sanitizer's output after sanPc runs
    sessions, \* committed rows of chat_sessions, in id order
    callers,  \* per caller of get_or_create_session: its position and result
    registry, \* tool_registry: tools, tool_schemas, and the last lookup result
    http      \* requests under db_session_cleanup_middleware and the
              \* _session_contexts of get_db_session

aux == <<sessions, callers, registry, http>>

vars == <<env, N, db, turn, rdLog, rdWindow, sanPc, sanIn, sanOut,
          sessions, callers, registry, http>>

NoDecision == [kind |-> "none", content |-> "", calls |-> <<>>]

IdleTurn ==
    [pc |-> "idle", sid |-> "s1", sys |-> FALSE, hist |-> "none", req |-> <<>>,
     dec |-> NoDecision, slots |-> <<>>, ooo |-> FALSE, final |-> "",
     batch |-> <<>>, resp |-> "none"]

\* the kinds of tool call the reasoning model asks for: a registered tool
\* with each kind of arguments, and an unknown tool
RichKinds == {<<"calculate", "valid">>, <<"calculate", "notjson">>,
              <<"calculate", "badkw">>, <<"nosuch", "valid">>}
LeanKinds == {<<"calculate", "valid">>}

CallLists(kinds, maxlen) == UNION {[1..len -> kinds] : len \in 1..maxlen}

\* tool_calls of a decision; the model numbers the calls of one message
CallsOf(f) == [k \in 1..Len(f) |-> Call(k, f[k][1], f[k][2])]

ToolDecision(f) == [kind |-> "calls", content |-> "", calls |-> CallsOf(f)]

\* what get_model_decision returns: a message without tool_calls (content
\* possibly empty), or a message with tool_calls
DirectDecisions ==
    {[kind |-> "direct", content |-> c, calls |-> <<>>] : c \in {"answer", ""}}
RichToolDecisions == {ToolDecision(f) : f \in CallLists(RichKinds, MaxCalls)}
LeanToolDecisions == {ToolDecision(f) : f \in CallLists(LeanKinds, MaxCalls)}
OneToolDecisions == {ToolDecision(f) : f \in CallLists(LeanKinds, 1)}

\* the scenarios explored:
\*   "serial": up to MaxTurns turns, one after the other, any window size
\*   "multi":  up to MaxTurns concurrent turns, each asking for one tool
\*   "single": one turn, every kind and number of tool calls
\*   "sessions": one turn beside callers of get_or_create_session
\*   "window": one turn on a table holding arbitrary rows
\*   "isolation": turns one after the other on two sessions, and clear_session
Envs == {"serial", "multi", "single"}
OneTurnEnvs == {"single", "sessions", "window"}
SerialEnvs == {"serial", "isolation"}

ToolDecisions(e) ==
    IF e = "single" THEN RichToolDecisions
    ELSE IF e = "serial" THEN LeanToolDecisions ELSE OneToolDecisions

\* request.system_prompt: set (the default of the request model) or empty
SysChoices(e) == IF e \in {"single", "window"} THEN BOOLEAN ELSE {TRUE}

\* session_id of a request
SessionsOf(e) == IF e \in {"sessions", "isolation"} THEN AllSessionIds ELSE SessionIds

\* get_history returns, or raises (the database is unreachable)
ReadOutcomes(e) == IF e = "window" THEN BOOLEAN ELSE {TRUE}

\* what the summary request ends with: a text, a message whose content is
\* None, or an exception
SummaryOutcomes(e) ==
    IF e = "single" THEN {"text", "none", "raise"} ELSE {"text", "raise"}

InFlight(pc) == pc \notin {"idle", "done", "error"}

TurnLimit(e) == IF e \in OneTurnEnvs THEN 1 ELSE MaxTurns

SanQuiet == sanPc = 0 /\ sanIn = <<>> /\ sanOut = <<>>

\* get_or_create_session not called
Callers == 1..MaxCallers
IdleCaller == [pc |-> "idle", sid |-> "s1", ret |-> <<>>]
\* tool_registry after construction
RegNames == {"calculate", "get_current_datetime"}
EmptyRegistry == [tools |-> [n \in RegNames |-> "none"], schemas |-> <<>>, out |-> <<>>]
\* no request has arrived
Requests == 1..MaxRequests
IdleRequest == [pc |-> "idle", db |-> "none"]
IdleHttp == [req |-> [r \in Requests |-> IdleRequest], ctx |-> {}]

SessionsQuiet == sessions = <<>> /\ callers = [c \in Callers |-> IdleCaller]
RegistryQuiet == registry = EmptyRegistry
HttpQuiet == http = IdleHttp

Init ==
    /\ \/ env = "serial" /\ N \in 1..MaxN
       \/ env \in {"multi", "single"} /\ N = MaxN
    /\ db = <<>>
    /\ turn = [t \in Turns |-> IdleTurn]
    /\ rdLog = <<>>
    /\ rdWindow = <<>>
    /\ SanQuiet
    /\ SessionsQuiet /\ RegistryQuiet /\ HttpQuiet

\* ------------------------------------------------------------------------
\* Actions of a turn
\* ------------------------------------------------------------------------
\* request arrives; format_messages_with_memory reads and sanitizes the
\* history; the decision request goes out
StartTurn(t, s, sys, ok) ==
    /\ turn[t].pc = "idle"
    /\ t <= TurnLimit(env)
    /\ \A u \in 1..(t - 1) : turn[u].pc # "idle"
    /\ env \in SerialEnvs => \A u \in Turns : ~InFlight(turn[u].pc)
    /\ turn' = [turn EXCEPT ![t] =
                  [@ EXCEPT !.pc = "decide", !.sid = s, !.sys = sys,
                            !.hist = HistoryOutcome(db, s, N, ok),
                            !.req = IF ok THEN BuildContext(db, s, N, sys)
                                    ELSE BuildContext(<<>>, s, N, sys)]]
    /\ UNCHANGED <<aux, env, N, db, rdLog, rdWindow, sanPc, sanIn, sanOut>>

\* mutant: the user message is saved before the decision is known
DecisionFailsAfterSave(t) ==
    /\ turn[t].pc = "decide"
    /\ turn' = [turn EXCEPT ![t] =
                  [@ EXCEPT !.pc = "error", !.req = <<>>, !.resp = "error",
                            !.dec = [kind |-> "fail", content |-> "", calls |-> <<>>]]]
    /\ db' = CommitRows(db, turn[t].sid, t, <<UserMsg>>)
    /\ UNCHANGED <<aux, env, N, rdLog, rdWindow, sanPc, sanIn, sanOut>>

\* get_model_decision raised: llm_with_tools answers 500
DecisionFails(t) ==
    /\ turn[t].pc = "decide"
    /\ turn' = [turn EXCEPT ![t] =
                  [@ EXCEPT !.pc = "error", !.req = <<>>, !.resp = "error",
                            !.dec = [kind |-> "fail", content |-> "", calls |-> <<>>]]]
    /\ UNCHANGED <<aux, env, N, db, rdLog, rdWindow, sanPc, sanIn, sanOut>>

\* a decision without tool_calls: _handle_direct_answer, then save_to_memory
\* adds the batch and awaits the commit
DecideDirect(t, d) ==
    /\ turn[t].pc = "decide"
    /\ d.kind = "direct"
    /\ LET final == IF d.content = "" THEN Fallback ELSE d.content IN
       turn' = [turn EXCEPT ![t] =
                  [@ EXCEPT !.pc = "commit", !.req = <<>>, !.dec = d,
                            !.final = final, !.batch = DirectBatch(final)]]
    /\ UNCHANGED <<aux, env, N, db, rdLog, rdWindow, sanPc, sanIn, sanOut>>

\* a decision with tool_calls: _handle_tool_calls creates one execute_tool
\* coroutine per call and awaits gather
DecideTools(t, d) ==
    /\ turn[t].pc = "decide"
    /\ d.kind = "calls"
    /\ turn' = [turn EXCEPT ![t] =
                  [@ EXCEPT !.pc = "tools", !.dec = d,
                            !.slots = [k \in 1..Len(d.calls) |-> Running]]]
    /\ UNCHANGED <<aux, env, N, db, rdLog, rdWindow, sanPc, sanIn, sanOut>>

\* mutant: the calls are awaited one after the other
CanFinishInTurn(slots, i) ==
    slots[i] = Running /\ \A j \in 1..(i - 1) : slots[j] # Running

\* gather wraps every coroutine in a task of its own: a call that has not
\* finished can finish whatever the state of the other calls
CanFinish(slots, i) == slots[i] = Running

\* one execute_tool coroutine finishes, in any order; ooo records, while the
\* tool branch lasts, that a call finished before a call requested earlier
ToolDone(t, i) ==
    /\ turn[t].pc = "tools"
    /\ i \in 1..Len(turn[t].slots)
    /\ CanFinish(turn[t].slots, i)
    /\ turn' = [turn EXCEPT ![t] =
                  [@ EXCEPT !.slots = StoreResult(@, i, ExecuteTool(turn[t].dec.calls[i])),
                            !.ooo = @ \/ \E j \in 1..(i - 1) : turn[t].slots[j] = Running]]
    /\ UNCHANGED <<aux, env, N, db, rdLog, rdWindow, sanPc, sanIn, sanOut>>

\* gather ends: with the first exception of a coroutine, which llm_with_tools
\* turns into a 500, or, once all are done, with the results in call order,
\* and then the summary request goes out
GatherReturns(t) ==
    /\ turn[t].pc = "tools"
    /\ AnyRaised(turn[t].slots) \/ AllDone(turn[t].slots)
    /\ turn' = [turn EXCEPT ![t] =
                  IF AnyRaised(turn[t].slots)
                  THEN [@ EXCEPT !.pc = "error", !.req = <<>>, !.resp = "error"]
                  ELSE [@ EXCEPT !.pc = "summary",
                                 !.req = SummaryContext(turn[t].req, turn[t].dec,
                                                        ResultMsgs(turn[t].slots))]]
    /\ UNCHANGED <<aux, env, N, db, rdLog, rdWindow, sanPc, sanIn, sanOut>>

\* get_summary_from_tool_results returns the content of the summary message,
\* or the apology when the call raised
SummaryAnswer(outcome) ==
    IF outcome = "text" THEN "summary"
    ELSE IF outcome = "none" THEN NoneText ELSE Apology

\* the summary request ends; save_to_memory adds the batch and awaits the
\* commit
SummaryReturns(t, outcome) ==
    /\ turn[t].pc = "summary"
    /\ LET final == SummaryAnswer(outcome) IN
       turn' = [turn EXCEPT ![t] =
                  [@ EXCEPT !.pc = "commit", !.req = <<>>, !.final = final,
                            !.ooo = FALSE,
                            !.batch = ToolBatch(turn[t].dec,
                                                ResultMsgs(turn[t].slots), final)]]
    /\ UNCHANGED <<aux, env, N, db, rdLog, rdWindow, sanPc, sanIn, sanOut>>

\* the response llm_with_tools ends with once save_to_memory has returned
Respond(d, final) ==
    IF ToolsCalledRaises(d) \/ ResponseLengthRaises(final) THEN "error" ELSE "success"

\* the commit of update_history succeeds, or raises and save_to_memory logs
\* it; llm_with_tools then builds tools_called and answers
Commit(t, ok) ==
    /\ turn[t].pc = "commit"
    /\ db' = IF ok THEN CommitRows(db, turn[t].sid, t, turn[t].batch) ELSE db
    /\ turn' = [turn EXCEPT ![t] =
                  [@ EXCEPT !.pc = IF Respond(turn[t].dec, turn[t].final) = "error"
                                   THEN "error" ELSE "done",
                            !.resp = Respond(turn[t].dec, turn[t].final)]]
    /\ UNCHANGED <<aux, env, N, rdLog, rdWindow, sanPc, sanIn, sanOut>>

\* GET /llm-sessions/{session_id}: get_history on the committed rows
ReadHistory(s) ==
    /\ rdLog' = OrderedLog(db, s)
    /\ rdWindow' = GetHistory(db, s, N)
    /\ rdLog' # rdLog
    /\ UNCHANGED <<aux, env, N, db, turn, sanPc, sanIn, sanOut>>

Next ==
    \/ \E t \in Turns, s \in SessionsOf(env) :
          \E sys \in SysChoices(env), ok \in ReadOutcomes(env) : StartTurn(t, s, sys, ok)
    \/ \E t \in Turns : DecisionFails(t)
    \/ \E t \in Turns : \E d \in DirectDecisions : DecideDirect(t, d)
    \/ \E t \in Turns : turn[t].pc = "decide" /\ \E d \in ToolDecisions(env) : DecideTools(t, d)
    \/ \E t \in Turns : \E i \in 1..MaxCalls : ToolDone(t, i)
    \/ \E t \in Turns : GatherReturns(t)
    \/ \E t \in Turns : \E o \in SummaryOutcomes(env) : SummaryReturns(t, o)
    \/ \E t \in Turns : \E ok \in BOOLEAN : Commit(t, ok)
    \/ \E s \in SessionsOf(env) : ReadHistory(s)

Spec == Init /\ [][Next]_vars

\* one turn under a fair event loop: a tool coroutine that can finish does
\* finish, and the task awaiting gather is resumed once gather can return
InitLive == Init /\ env = "single"

Fairness ==
    \A t \in Turns :
        /\ WF_vars(\E i \in 1..MaxCalls : ToolDone(t, i))
        /\ WF_vars(GatherReturns(t))

SpecLive == InitLive /\ [][Next]_vars /\ Fairness

\* ------------------------------------------------------------------------
\* chat_sessions: SessionService.get_or_create_session
\* ------------------------------------------------------------------------
DefaultPrompt == "default prompt"     \* settings.llm.default_system_prompt

\* a row of chat_sessions
SessionRow(s) == [sid |-> s, prompt |-> DefaultPrompt]

\* SELECT ... WHERE session_id = s, .first(): the rows found
SessionsFound(rows, s) == SelectSeq(rows, LAMBDA r : r.sid = s)

\* db.add + db.commit of a new row; session_id is unique, so the commit
\* raises IntegrityError when a row with the id has been committed meanwhile
InsertSessionRow(rows, s) ==
    IF SessionsFound(rows, s) # <<>>
    THEN [ok |-> FALSE, rows |-> rows]
    ELSE [ok |-> TRUE, rows |-> Append(rows, SessionRow(s))]

\* the query of get_or_create_session: a session found is returned as it is
SelectSession(c, s) ==
    /\ callers[c].pc = "idle"
    /\ \A b \in 1..(c - 1) : callers[b].pc # "idle"
    /\ LET found == SessionsFound(sessions, s) IN
       callers' = [callers EXCEPT ![c] =
                     IF found # <<>>
                     THEN [pc |-> "returned", sid |-> s, ret |-> <<found[1]>>]
                     ELSE [pc |-> "missed", sid |-> s, ret |-> <<>>]]
    /\ UNCHANGED <<env, N, db, turn, rdLog, rdWindow, sanPc, sanIn, sanOut,
                   sessions, registry, http>>

\* no session was found: the new one is added, committed and returned, or
\* the commit raises
InsertSession(c) ==
    /\ callers[c].pc = "missed"
    /\ LET r == InsertSessionRow(sessions, callers[c].sid) IN
       /\ sessions' = r.rows
       /\ callers' = [callers EXCEPT ![c] =
                        IF r.ok
                        THEN [@ EXCEPT !.pc = "returned",
                                       !.ret = <<SessionRow(callers[c].sid)>>]
                        ELSE [@ EXCEPT !.pc = "raised"]]
    /\ UNCHANGED <<env, N, db, turn, rdLog, rdWindow, sanPc, sanIn, sanOut,
                   registry, http>>

InitSess ==
    /\ env = "sessions"
    /\ N = MaxN
    /\ db = <<>>
    /\ turn = [t \in Turns |-> IdleTurn]
    /\ rdLog = <<>>
    /\ rdWindow = <<>>
    /\ SanQuiet
    /\ SessionsQuiet /\ RegistryQuiet /\ HttpQuiet

NextSess ==
    \/ Next
    \/ \E c \in Callers, s \in AllSessionIds : SelectSession(c, s)
    \/ \E c \in Callers : InsertSession(c)

SpecSess == InitSess /\ [][NextSess]_vars

\* ------------------------------------------------------------------------
\* A turn on a table that holds arbitrary rows
\* ------------------------------------------------------------------------
\* the rows chat_messages may hold for a session: messages of every role, a
\* dict without a "content" key, and text that is not JSON
StoredRows ==
    { Row("s1", 0, PlainMsg("user", "q0")),
      Row("s1", 0, PlainMsg("assistant", "a0")),
      Row("s1", 0, AsstCalls("", <<TC(1, "calculate")>>)),
      Row("s1", 0, ToolMsg("result", 1, "calculate")),
      Row("s1", 0, PlainMsg("user", NoContent)),
      RawRow("s1", 0, "assistant", "not json") }

Tables == UNION {[1..len -> StoredRows] : len \in 0..MaxRows}

InitWin ==
    /\ env = "window"
    /\ N \in 1..(MaxRows - 1)
    /\ db \in Tables
    /\ turn = [t \in Turns |-> IdleTurn]
    /\ rdLog = <<>>
    /\ rdWindow = <<>>
    /\ SanQuiet
    /\ SessionsQuiet /\ RegistryQuiet /\ HttpQuiet

SpecWin == InitWin /\ [][Next]_vars

\* ------------------------------------------------------------------------
\* Turns and clear_session on two sessions
\* ------------------------------------------------------------------------
\* the rows of session s, in id order
RowsOf(rows, s) == SelectSeq(rows, LAMBDA r : r.sid = s)

\* DELETE /llm-sessions/{session_id}: the rows selected by session_id are
\* deleted and the deletion is committed (on an exception: rollback, nothing
\* changes)
ClearSession(s) ==
    /\ RowsOf(db, s) # <<>>
    /\ db' = SelectSeq(db, LAMBDA r : r.sid # s)
    /\ UNCHANGED <<aux, env, N, turn, rdLog, rdWindow, sanPc, sanIn, sanOut>>

InitIso ==
    /\ env = "isolation"
    /\ N \in 1..MaxN
    /\ db = <<>>
    /\ turn = [t \in Turns |-> IdleTurn]
    /\ rdLog = <<>>
    /\ rdWindow = <<>>
    /\ SanQuiet
    /\ SessionsQuiet /\ RegistryQuiet /\ HttpQuiet

NextIso ==
    \/ Next
    \/ \E s \in AllSessionIds : ClearSession(s)

SpecIso == InitIso /\ [][NextIso]_vars

\* ------------------------------------------------------------------------
\* ToolRegistry
\* ------------------------------------------------------------------------
\* decorated functions: func.__name__ and the module defining the function
Func(n, m) == [name |-> n, module |-> m]
Funcs == {Func("calculate", "math_tools"), Func("calculate", "general_tools"),
          Func("get_current_datetime", "general_tools")}

\* register: self.tools[tool_name] = func; self.tool_schemas.append(schema)
RegisterFunc(reg, f) ==
    [reg EXCEPT !.tools[f.name] = f.module,
                !.schemas = Append(@, f.name)]

Register(f) ==
    /\ Len(registry.schemas) < MaxRegs
    /\ registry' = [RegisterFunc(registry, f) EXCEPT !.out = <<>>]
    /\ UNCHANGED <<env, N, db, turn, rdLog, rdWindow, sanPc, sanIn, sanOut,
                   sessions, callers, http>>

\* get_tool: self.tools.get(name)
GetTool(n) ==
    /\ registry' = [registry EXCEPT !.out = <<"tool", n, registry.tools[n]>>]
    /\ registry' # registry
    /\ UNCHANGED <<env, N, db, turn, rdLog, rdWindow, sanPc, sanIn, sanOut,
                   sessions, callers, http>>

\* get_all_schemas: the list tool_schemas itself
GetAllSchemas ==
    /\ registry' = [registry EXCEPT !.out = <<"schemas", registry.schemas>>]
    /\ registry' # registry
    /\ UNCHANGED <<env, N, db, turn, rdLog, rdWindow, sanPc, sanIn, sanOut,
                   sessions, callers, http>>

InitReg ==
    /\ env = "registry"
    /\ N = MaxN
    /\ db = <<>>
    /\ turn = [t \in Turns |-> IdleTurn]
    /\ rdLog = <<>>
    /\ rdWindow = <<>>
    /\ SanQuiet
    /\ SessionsQuiet /\ RegistryQuiet /\ HttpQuiet

NextReg ==
    \/ \E f \in Funcs : Register(f)
    \/ \E n \in RegNames : GetTool(n)
    \/ GetAllSchemas

SpecReg == InitReg /\ [][NextReg]_vars

\* ------------------------------------------------------------------------
\* HTTP requests and their database sessions
\* ------------------------------------------------------------------------
\* the middleware is entered and awaits call_next
Arrive(r) ==
    /\ http.req[r].pc = "idle"
    /\ http' = [http EXCEPT !.req[r].pc = "entered"]
    /\ UNCHANGED <<env, N, db, turn, rdLog, rdWindow, sanPc, sanIn, sanOut,
                   sessions, callers, registry>>

\* the endpoint's dependencies are resolved: get_db_session enters a session
\* context and stores it in _session_contexts (endpoints without Depends
\* open nothing)
Dispatch(r, needsDb) ==
    /\ http.req[r].pc = "entered"
    /\ http' = IF needsDb
                THEN [http EXCEPT !.req[r] = [pc |-> "running", db |-> "open"],
                                  !.ctx = @ \cup {r}]
                ELSE [http EXCEPT !.req[r].pc = "running"]
    /\ UNCHANGED <<env, N, db, turn, rdLog, rdWindow, sanPc, sanIn, sanOut,
                   sessions, callers, registry>>

\* call_next returned: the middleware exits and deletes every stored context
CloseAll(req, ctx) ==
    [q \in Requests |-> IF q \in ctx THEN [req[q] EXCEPT !.db = "closed"] ELSE req[q]]

Complete(r) ==
    /\ http.req[r].pc = "running"
    /\ http' = [req |-> [CloseAll(http.req, http.ctx) EXCEPT ![r].pc = "done"],
                ctx |-> {}]
    /\ UNCHANGED <<env, N, db, turn, rdLog, rdWindow, sanPc, sanIn, sanOut,
                   sessions, callers, registry>>

InitHttp ==
    /\ env = "http"
    /\ N = MaxN
    /\ db = <<>>
    /\ turn = [t \in Turns |-> IdleTurn]
    /\ rdLog = <<>>
    /\ rdWindow = <<>>
    /\ SanQuiet
    /\ SessionsQuiet /\ RegistryQuiet /\ HttpQuiet

NextHttp ==
    \/ \E r \in Requests : Arrive(r)
    \/ \E r \in Requests, needsDb \in BOOLEAN : Dispatch(r, needsDb)
    \/ \E r \in Requests : Complete(r)

SpecHttp == InitHttp /\ [][NextHttp]_vars

\* ------------------------------------------------------------------------
\* The sanitizer on an arbitrary history (what storage may hold)
\* ------------------------------------------------------------------------
SanAlphabet ==
    { PlainMsg("user", "q"),
      PlainMsg("assistant", "x"),
      PlainMsg("system", "s"),
      PlainMsg("user", NoContent),
      AsstCalls("a", <<TC(1, "f"), TC(2, "g")>>),
      AsstCalls(NoContent, <<TC(1, "f")>>),
      AsstCalls("a", <<>>),
      ToolMsg("r1", 1, "f"),
      ToolMsg("r2", 2, "g"),
      ToolMsg("r3", NoId, "f"),
      ToolMsg("r4", 3, NoName) }

Histories == UNION {[1..len -> SanAlphabet] : len \in 0..MaxLen}

InitSan ==
    /\ env = "sanitizer"
    /\ N = MaxN
    /\ db = <<>>
    /\ turn = [t \in Turns |-> IdleTurn]
    /\ rdLog = <<>>
    /\ rdWindow = <<>>
    /\ sanPc = 0
    /\ sanIn \in Histories
    /\ sanOut = <<>>
    /\ SessionsQuiet /\ RegistryQuiet /\ HttpQuiet

\* the two passes run on the history read from storage
SanitizeOnce ==
    /\ sanPc = 0
    /\ sanPc' = 1
    /\ sanOut' = <<Sanitize(sanIn)>>
    /\ UNCHANGED <<aux, env, N, db, turn, rdLog, rdWindow, sanIn>>

\* the two passes run on their own output
SanitizeAgain ==
    /\ sanPc = 1
    /\ sanPc' = 2
    /\ sanOut' = Append(sanOut, Sanitize(sanOut[1]))
    /\ UNCHANGED <<aux, env, N, db, turn, rdLog, rdWindow, sanIn>>

SanNext == SanitizeOnce \/ SanitizeAgain

SpecSan == InitSan /\ [][SanNext]_vars

\* ------------------------------------------------------------------------
\* Properties
\* ------------------------------------------------------------------------
\* an entry of tool_calls answers a tool message: same tool_call_id, or same
\* tool name
Answers(e, m) ==
    \/ e.id # NoId /\ e.id = m.tcid
    \/ e.name # NoName /\ e.name = m.name

\* I1: every tool message has a matching entry in an earlier assistant message
ToolsHaveParent(w) ==
    \A k \in 1..Len(w) :
        w[k].role = "tool" =>
            \E j \in 1..(k - 1) :
                /\ w[j].role = "assistant"
                /\ \E e \in 1..Len(w[j].tcs) : Answers(w[j].tcs[e], w[k])

\* the tool messages after position k, before the next user/assistant message
Followers(w, k) ==
    {j \in (k + 1)..Len(w) :
        /\ w[j].role = "tool"
        /\ \A i \in (k + 1)..(j - 1) : w[i].role \notin {"user", "assistant"}}

CallingAssistant(m) == m.role = "assistant" /\ m.htc /\ Len(m.tcs) > 0

\* I2, by entries: each entry is answered by exactly one follower
EntriesAnsweredOnce(w) ==
    \A k \in 1..Len(w) :
        CallingAssistant(w[k]) =>
            \A e \in 1..Len(w[k].tcs) :
                Cardinality({j \in Followers(w, k) : Answers(w[k].tcs[e], w[j])}) = 1

\* I2, by position: the assistant message is directly followed by one tool
\* message per entry, the e-th carrying the e-th entry's id and name
ChainsComplete(w) ==
    \A k \in 1..Len(w) :
        CallingAssistant(w[k]) =>
            /\ Cardinality(Followers(w, k)) = Len(w[k].tcs)
            /\ \A e \in 1..Len(w[k].tcs) :
                /\ k + e <= Len(w)
                /\ w[k + e].role = "tool"
                /\ w[k + e].tcid = w[k].tcs[e].id
                /\ w[k + e].name = w[k].tcs[e].name

\* the messages of the rows the last GET request's query saw
ReadMsgs == [k \in 1..Len(rdLog) |-> RowDict(rdLog[k])]
\* its newest N messages, oldest first
NewestN == SubSeq(ReadMsgs, IF Len(rdLog) > N THEN Len(rdLog) - N + 1 ELSE 1, Len(rdLog))

\* C1: every tool message of a window returned by get_history is preceded in
\* the window by an assistant message with a tool_calls entry matching it
C1_WindowToolsHaveParent == ToolsHaveParent(rdWindow)

\* C2: the list the sanitizer produces for the reasoning model holds no tool
\* message without a matching tool_calls entry in an earlier assistant message
C2_SanitizedToolsHaveParent ==
    sanPc >= 1 =>
        ToolsHaveParent(<<PlainMsg("system", SysPrompt)>> \o sanOut[1] \o <<UserMsg>>)

C2_Witness ==
    /\ sanPc = 1
    /\ \E k \in 1..Len(sanOut[1]) : sanOut[1][k].role = "tool"
    /\ \E k \in 1..Len(sanIn) : sanIn[k].role = "tool" /\ ~HasValidAssistant(sanIn, k)

\* C3: in the sanitizer's output every assistant message with tool_calls is
\* followed, before the next user/assistant message, by tool messages that
\* answer every entry exactly once
C3_SanitizedEntriesAnswered == sanPc >= 1 => EntriesAnsweredOnce(sanOut[1])

\* C4: an assistant message with tool_calls in a window returned by
\* get_history has all its tool responses in the window, one per entry, before
\* the next user/assistant message
C4_WindowChainsComplete == ChainsComplete(rdWindow)

C4_Witness ==
    /\ Len(rdWindow) < Len(rdLog)
    /\ \E k \in 1..Len(rdWindow) : CallingAssistant(rdWindow[k]) /\ Len(rdWindow[k].tcs) >= 2

\* C5 as stated: when the newest N messages already satisfy I1 and I2, the
\* window has at most N messages
C5_BoundWhenNewestSafe ==
    (ToolsHaveParent(NewestN) /\ ChainsComplete(NewestN)) => Len(rdWindow) <= N

\* C5 amended: when the newest N messages satisfy I1 and I2, the window has at
\* most N messages unless the oldest of them is an assistant message carrying
\* tool_calls and older messages exist; then it has N + 1
C5_BoundUnlessCallsAtEdge ==
    (ToolsHaveParent(NewestN) /\ ChainsComplete(NewestN)) =>
        IF Len(rdLog) > N /\ NewestN[1].role = "assistant" /\ NewestN[1].htc
        THEN Len(rdWindow) = N + 1
        ELSE Len(rdWindow) <= N

C5_Witness ==
    /\ Len(rdLog) > N
    /\ ToolsHaveParent(NewestN) /\ ChainsComplete(NewestN)
    /\ \E k \in 1..Len(NewestN) : CallingAssistant(NewestN[k])
    /\ Len(rdWindow) = N

\* the log of C6: max_history_messages = 4, six messages, the third a tool
\* message and the second its assistant parent
C6_Scenario ==
    /\ N = 4
    /\ Len(rdLog) = 6
    /\ ReadMsgs[3].role = "tool"
    /\ CallingAssistant(ReadMsgs[2])
    /\ \E e \in 1..Len(ReadMsgs[2].tcs) : Answers(ReadMsgs[2].tcs[e], ReadMsgs[3])

\* C6 as stated: the window is messages 2 to 6, five messages
C6_WindowIsTwoToSix == C6_Scenario => rdWindow = SubSeq(ReadMsgs, 2, 6)

\* C6 amended: the window includes message 2 and is the whole log, six
\* messages: the expansion goes on past the assistant parent to message 1
C6_WindowIsOneToSix ==
    C6_Scenario => rdWindow = ReadMsgs /\ rdWindow[2] = ReadMsgs[2] /\ Len(rdWindow) = 6

C6_Witness == C6_Scenario /\ Len(rdWindow) > 4

\* the tool results gather handed back to _handle_tool_calls, as they stand
\* in the summary request and in the batch
ReturnedResults(t) ==
    IF turn[t].pc = "summary"
    THEN SubSeq(turn[t].req, Len(SystemMsgs(turn[t].req)) + 3, Len(turn[t].req))
    ELSE SubSeq(turn[t].batch, 3, Len(turn[t].batch) - 1)

Dispatched(t) ==
    /\ turn[t].dec.kind = "calls"
    /\ turn[t].pc = "summary" \/ turn[t].batch # <<>>

\* C7: the dispatcher returns one result per call, the i-th carrying the
\* tool_call_id and the name of the i-th call, whatever the completion order
C7_ResultsInCallOrder ==
    \A t \in Turns :
        Dispatched(t) =>
            /\ Len(ReturnedResults(t)) = Len(turn[t].dec.calls)
            /\ \A i \in 1..Len(turn[t].dec.calls) :
                /\ ReturnedResults(t)[i].role = "tool"
                /\ ReturnedResults(t)[i].tcid = turn[t].dec.calls[i].id
                /\ ReturnedResults(t)[i].name = turn[t].dec.calls[i].name

C7_Witness ==
    \E t \in Turns : turn[t].pc = "summary" /\ turn[t].ooo /\ Len(turn[t].dec.calls) >= 3

\* what a call yields on its own: the tool's output, or an error string
FailingCall(c) == c.name \notin Registered \/ c.args # "valid"
ErrorStrings == {"error: no such tool", "failed: JSONDecodeError", "failed: TypeError"}
OwnContent(c) ==
    IF c.name \notin Registered THEN "error: no such tool"
    ELSE IF c.args = "notjson" THEN "failed: JSONDecodeError"
    ELSE IF c.args = "badkw" THEN "failed: TypeError"
    ELSE "result"

\* C8: a failing call gives an error string as its own result; no exception
\* leaves the dispatcher, and every call's result is the one it yields alone
C8_FailuresStayLocal ==
    \A t \in Turns :
        /\ turn[t].pc = "tools" => ~AnyRaised(turn[t].slots)
        /\ (turn[t].dec.kind = "calls" /\ turn[t].resp = "error") => turn[t].batch # <<>>
        /\ Dispatched(t) =>
            \A i \in 1..Len(turn[t].dec.calls) :
                /\ i <= Len(ReturnedResults(t))
                /\ ReturnedResults(t)[i].content = OwnContent(turn[t].dec.calls[i])
                /\ FailingCall(turn[t].dec.calls[i])
                      <=> ReturnedResults(t)[i].content \in ErrorStrings

C8_Witness ==
    \E t \in Turns :
        /\ turn[t].pc = "summary"
        /\ \E i, j, k \in 1..Len(turn[t].dec.calls) :
            /\ turn[t].dec.calls[i].name \notin Registered
            /\ turn[t].dec.calls[j].args = "notjson"
            /\ ~FailingCall(turn[t].dec.calls[k])
            /\ i < k

\* C9: the sanitizer applied to its own output gives that output back
C9_SanitizeIdempotent == sanPc = 2 => sanOut[2] = sanOut[1]

C9_Witness ==
    /\ sanPc = 2
    /\ sanOut[1] # sanIn
    /\ \E k \in 1..Len(sanOut[1]) : sanOut[1][k].role = "tool"

\* the messages of turn t among rows
BatchRows(rows, t) ==
    LET mine == SelectSeq(rows, LAMBDA r : r.created_at = t)
    IN [k \in 1..Len(mine) |-> RowDict(mine[k])]

\* C10: a history read sees, of each turn, the whole commit batch or nothing,
\* and so does the table at every instant
C10_BatchAllOrNothing ==
    \A t \in Turns :
        /\ BatchRows(rdLog, t) = <<>> \/ BatchRows(rdLog, t) = turn[t].batch
        /\ BatchRows(db, t) = <<>> \/ BatchRows(db, t) = turn[t].batch

C10_Witness ==
    /\ env = "multi"
    /\ rdLog # <<>>
    /\ rdLog = OrderedLog(db, "s1")
    /\ \E t, u \in Turns :
        /\ turn[t].pc = "commit"
        /\ BatchRows(rdLog, t) = <<>>
        /\ Len(BatchRows(rdLog, u)) = 4

\* the turn has ended: the caller has its answer or its error
Ended(t) == turn[t].pc \in {"done", "error"}

\* the rows turn t committed have the shape of a batch: the user message,
\* then, for a decision with tool calls, the assistant message recording the
\* calls and one tool result per call in request order, then one final
\* assistant message
BatchShape(b, d) ==
    LET calls == d.calls
        extra == IF d.kind = "calls" THEN 1 + Len(calls) ELSE 0
    IN /\ Len(b) = 2 + extra
       /\ b[1] = PlainMsg("user", Query)
       /\ b[Len(b)].role = "assistant" /\ ~b[Len(b)].htc
       /\ d.kind = "direct" =>
             b[2].content = (IF d.content = "" THEN Fallback ELSE d.content)
       /\ d.kind = "calls" =>
             /\ b[2].role = "assistant" /\ b[2].htc
             /\ Len(b[2].tcs) = Len(calls)
             /\ \A k \in 1..Len(calls) :
                   /\ b[2].tcs[k] = [id |-> calls[k].id, name |-> calls[k].name]
                   /\ b[2 + k].role = "tool"
                   /\ b[2 + k].tcid = calls[k].id
                   /\ b[2 + k].name = calls[k].name

\* C11: the batch a turn commits is the user message, then (only for a
\* decision with tool calls) the assistant message with the calls and one tool
\* result per call in request order, then exactly one final assistant message
C11_BatchIsUserChainFinal ==
    \A t \in Turns :
        BatchRows(db, t) # <<>> => BatchShape(BatchRows(db, t), turn[t].dec)

C11_Witness ==
    \E t, u \in Turns :
        /\ Len(BatchRows(db, t)) = 2
        /\ Len(BatchRows(db, u)) >= 5
        /\ turn[u].dec.kind = "calls"

\* C12: a failed decision call ends the turn with an error, no tool is
\* invoked and no row of the turn is in the table
C12_DecisionFailureLeavesNothing ==
    \A t \in Turns :
        turn[t].dec.kind = "fail" =>
            /\ turn[t].pc = "error" /\ turn[t].resp = "error"
            /\ turn[t].slots = <<>>
            /\ turn[t].batch = <<>>
            /\ BatchRows(db, t) = <<>>

C12_Witness ==
    \E t, u \in Turns :
        /\ turn[t].dec.kind = "fail"
        /\ BatchRows(db, u) # <<>>

\* C13 as stated: when the summary call fails, the final answer is the
\* apology, the batch ends with it, and the turn returns successfully
C13_SummaryFailureStillSucceeds ==
    \A t \in Turns :
        (Ended(t) /\ turn[t].final = Apology) =>
            /\ turn[t].batch[Len(turn[t].batch)] = PlainMsg("assistant", Apology)
            /\ turn[t].resp = "success"

\* C14 as stated: a turn whose decision carries tool calls ends with a final
\* answer, not an error, whatever the outcome of each call
C14_ToolTurnsSucceed ==
    \A t \in Turns :
        (Ended(t) /\ turn[t].dec.kind = "calls") =>
            turn[t].pc = "done" /\ turn[t].resp = "success"

\* C15 as stated: a turn whose commit failed is reported as an error
C15_CommitFailureIsError ==
    \A t \in Turns :
        (Ended(t) /\ turn[t].batch # <<>> /\ BatchRows(db, t) = <<>>) =>
            turn[t].resp = "error"

\* C16 as stated: a turn that ends with an error has committed no message
C16_ErrorLeavesHistoryUnchanged ==
    \A t \in Turns :
        turn[t].resp = "error" => BatchRows(db, t) = <<>>

\* C17: once the decision's calls are dispatched every unfinished call can
\* finish whatever the state of the others; the dispatcher returns only when
\* every call has finished; and when the calls finish it does return, with
\* the summary request as the next step
C17_DispatcherJoinsAll ==
    /\ [](\A t \in Turns :
            turn[t].pc = "tools" =>
                /\ Len(turn[t].slots) = Len(turn[t].dec.calls)
                /\ \A i \in 1..Len(turn[t].slots) :
                      turn[t].slots[i] = Running => ENABLED ToolDone(t, i))
    /\ [][\A t \in Turns :
            (turn[t].pc = "tools" /\ turn'[t].pc # "tools") =>
                /\ \A i \in 1..Len(turn[t].slots) : turn[t].slots[i] # Running
                /\ turn'[t].pc = "summary"]_vars
    /\ \A t \in Turns : (turn[t].pc = "tools") ~> (turn[t].pc = "summary")

C17_Witness ==
    \E t \in Turns :
        /\ turn[t].pc = "tools"
        /\ Len(turn[t].slots) >= 3
        /\ turn[t].slots[1] = Running
        /\ turn[t].slots[2] # Running
        /\ turn[t].slots[3] = Running

\* the chain at k is complete: as many followers as entries, and every entry
\* answered by exactly one of them
CompleteAt(w, k) ==
    /\ Cardinality(Followers(w, k)) = Len(w[k].tcs)
    /\ \A e \in 1..Len(w[k].tcs) :
          Cardinality({j \in Followers(w, k) : Answers(w[k].tcs[e], w[j])}) = 1

\* C18 as stated: in a complete chain of the sanitizer's output the e-th tool
\* message after the assistant message answers the e-th tool_calls entry
C18_ResultsInEntryOrder ==
    sanPc >= 1 =>
        \A k \in 1..Len(sanOut[1]) :
            (CallingAssistant(sanOut[1][k]) /\ CompleteAt(sanOut[1], k)) =>
                \A e \in 1..Len(sanOut[1][k].tcs) :
                    /\ k + e <= Len(sanOut[1])
                    /\ Answers(sanOut[1][k].tcs[e], sanOut[1][k + e])

\* the plain messages of a list: user, system, assistant without tool_calls
IsPlain(m) == m.role # "tool" /\ ~m.htc
PlainOf(w) == SelectSeq(w, IsPlain)

\* C19 as stated: the plain messages of the input (each with its content) are
\* the plain messages of the sanitizer's output, in the same order
C19_PlainMessagesPassThrough ==
    (sanPc >= 1 /\ \A k \in 1..Len(sanIn) : sanIn[k].content # NoContent) =>
        PlainOf(sanOut[1]) = PlainOf(sanIn)

\* C20: the window is, oldest first, the run of the session's log that ends
\* at its newest message; it holds at least the newest min(N, length of the
\* log) messages; and it is empty for a session without messages
C20_WindowIsNewestRun ==
    LET len == Len(rdLog)
        k == Len(rdWindow)
    IN /\ k <= len
       /\ rdWindow = SubSeq(ReadMsgs, len - k + 1, len)
       /\ k >= (IF len < N THEN len ELSE N)
       /\ \A s \in SessionIds : GetHistory(<<>>, s, N) = <<>>

C20_Witness ==
    /\ Len(rdLog) > Len(rdWindow)
    /\ Len(rdWindow) > N
    /\ rdWindow[1].role = "user"

\* a is a prefix of b
IsPrefix(a, b) == Len(a) <= Len(b) /\ a = SubSeq(b, 1, Len(a))

\* b is a with one block of rows put in after the first k rows
InsertedAt(a, b, k) ==
    /\ SubSeq(b, 1, k) = SubSeq(a, 1, k)
    /\ SubSeq(b, Len(b) - (Len(a) - k) + 1, Len(b)) = SubSeq(a, k + 1, Len(a))

\* every committed row is still in the table, unchanged, and the session's
\* history (the order of get_history's query) keeps every message in its
\* place relative to the others
RowsKept ==
    /\ IsPrefix(db, db')
    /\ \A s \in SessionIds :
          \E k \in 0..Len(OrderedLog(db, s)) :
              InsertedAt(OrderedLog(db, s), OrderedLog(db', s), k)

TurnEdges ==
    {<<"idle", "decide">>, <<"decide", "tools">>, <<"decide", "commit">>,
     <<"decide", "error">>, <<"tools", "summary">>, <<"summary", "commit">>,
     <<"commit", "done">>, <<"commit", "error">>}

TurnStepInOrder(t) ==
    LET a == turn[t]
        b == turn'[t]
    IN /\ a.pc # b.pc => <<a.pc, b.pc>> \in TurnEdges
       /\ (a.pc = "decide" /\ b.pc = "tools") =>
             b.dec.kind = "calls" /\ Len(b.dec.calls) > 0
       /\ (a.pc = "decide" /\ b.pc = "commit") =>
             b.dec.kind = "direct" /\ Len(b.dec.calls) = 0 /\ b.slots = <<>>
       /\ a.slots # b.slots =>
             /\ b.pc = "tools" /\ a.pc \in {"decide", "tools"}
             /\ b.dec.kind = "calls"
       /\ (a.pc # "summary" /\ b.pc = "summary") =>
             \A i \in 1..Len(a.slots) : a.slots[i] # Running
       /\ b.pc = "commit" => b.final # "" /\ b.batch # <<>>
       /\ a.pc = "commit" => b.final = a.final /\ b.batch = a.batch
       /\ BatchRows(db', t) # BatchRows(db, t) =>
             /\ a.pc = "commit" /\ b.pc \in {"done", "error"}
             /\ BatchRows(db, t) = <<>>
             /\ BatchRows(db', t) = a.batch
             /\ a.batch[Len(a.batch)].content = a.final
       /\ a.pc \in {"done", "error"} => b = a

\* C23: a turn goes through BuildContext, RequestDecision, ToolBranch or
\* DirectBranch (ToolBranch exactly when the decision carries tool calls),
\* Persist and Done in that order; tools run only in ToolBranch after the
\* decision, the summary is asked for only when every result is there, and
\* Persist happens at most once, after the final answer is fixed
C23_TurnStepsInOrder ==
    /\ [][\A t \in Turns : TurnStepInOrder(t)]_vars
    /\ [](\A t \in Turns :
            turn[t].pc = "done" =>
                /\ turn[t].dec.kind \in {"direct", "calls"}
                /\ turn[t].final # "" /\ turn[t].batch # <<>>
                /\ turn[t].dec.kind = "calls" <=> turn[t].slots # <<>>)

C23_Witness ==
    \E t \in Turns :
        /\ turn[t].pc = "done" /\ turn[t].resp = "success"
        /\ turn[t].dec.kind = "calls" /\ Len(turn[t].dec.calls) >= 2
        /\ BatchRows(db, t) = turn[t].batch

\* a safe chain boundary: a user message or an assistant message without
\* tool_calls
SafeBoundary(m) == m.role = "user" \/ (m.role = "assistant" /\ ~m.htc)

\* C24: the expansion stops exactly at the first safe boundary (a user
\* message or a plain assistant message as the oldest of the window) or when
\* the buffer of at most 2N fetched messages is used up; the window is then
\* returned as gathered and never holds more than 2N messages
C24_ExpansionStopsAtBoundaryOrBuffer ==
    LET len == Len(rdLog)
        buffer == IF len < 2 * N THEN len ELSE 2 * N
        start == IF len < N THEN len ELSE N
        k == Len(rdWindow)
    IN /\ k <= 2 * N
       /\ start <= k /\ k <= buffer
       /\ k = buffer \/ SafeBoundary(ReadMsgs[len - k + 1])
       /\ \A j \in start..(k - 1) : ~SafeBoundary(ReadMsgs[len - j + 1])

\* the buffer is used up inside a chain
C24_Witness ==
    /\ Len(rdLog) > 2 * N
    /\ Len(rdWindow) = 2 * N
    /\ rdWindow[1].role = "tool"

\* C22 as stated: under any interleaving of get_or_create_session calls there
\* is one session per referenced id, seeded with the default prompt, and
\* every call returns it
C22_EveryCallReturnsTheSession ==
    /\ \A s \in AllSessionIds : Len(SelectSeq(sessions, LAMBDA r : r.sid = s)) <= 1
    /\ \A c \in Callers :
          /\ callers[c].pc # "raised"
          /\ callers[c].pc = "returned" =>
                /\ callers[c].ret = <<[sid |-> callers[c].sid, prompt |-> DefaultPrompt]>>
                /\ \E k \in 1..Len(sessions) : sessions[k] = callers[c].ret[1]

\* C26 as stated: once a turn has committed history for a session_id, a
\* session record for that id exists
C26_CommittedTurnHasSession ==
    \A t \in Turns :
        BatchRows(db, t) # <<>> =>
            \E k \in 1..Len(sessions) : sessions[k].sid = turn[t].sid

\* the names in the schema catalogue, and the names get_tool knows
SchemaNames == {registry.schemas[k] : k \in 1..Len(registry.schemas)}
KnownTools == {n \in RegNames : registry.tools[n] # "none"}

\* C27 as stated: the catalogue holds exactly one schema per registered name,
\* its names are the names get_tool finds, and the lookups change nothing
C27_OneSchemaPerName ==
    /\ Cardinality(SchemaNames) = Len(registry.schemas)
    /\ SchemaNames = KnownTools

\* C28 as stated: the database session of a request in flight is open and
\* still registered; only the request's own completion closes it
C28_SessionOpenWhileInFlight ==
    \A r \in Requests :
        (http.req[r].pc = "running" /\ http.req[r].db # "none") =>
            /\ http.req[r].db = "open"
            /\ r \in http.ctx

\* the rows of the log that the window of the last read spans
WindowRows == SubSeq(rdLog, Len(rdLog) - Len(rdWindow) + 1, Len(rdLog))

HistoryFailed(t) == turn[t].hist \in {"unreadable", "unsanitized"}

\* C29: when reading or sanitizing the history fails, the context sent to the
\* reasoning model is [system prompt if given] + [user message] and nothing
\* else; the turn goes on to the decision, ends in an error only where any
\* turn does, and the rows it commits are its batch
C29_FailedHistoryGivesBareContext ==
    \A t \in Turns :
        HistoryFailed(t) =>
            /\ turn[t].pc = "decide" =>
                  turn[t].req = (IF turn[t].sys THEN <<PlainMsg("system", SysPrompt)>>
                                 ELSE <<>>) \o <<PlainMsg("user", Query)>>
            /\ turn[t].pc = "error" =>
                  \/ turn[t].dec.kind = "fail"
                  \/ Respond(turn[t].dec, turn[t].final) = "error"
            /\ BatchRows(db, t) # <<>> =>
                  /\ BatchRows(db, t) = turn[t].batch
                  /\ BatchShape(turn[t].batch, turn[t].dec)
            /\ turn[t].pc = "done" => turn[t].resp = "success"

C29_Witness ==
    \E t \in Turns :
        /\ turn[t].hist = "unsanitized"
        /\ turn[t].sys
        /\ turn[t].pc = "done"
        /\ turn[t].dec.kind = "calls"
        /\ Len(BatchRows(db, t)) = 4
        /\ Len(OrderedLog(db, turn[t].sid)) > 4

\* the session a step operates on: the session of the turn that moves, or
\* the session whose rows a clear removes
OperatesOn(s) ==
    \/ \E t \in Turns : turn'[t] # turn[t] /\ turn'[t].sid = s
    \/ turn' = turn /\ RowsOf(db, s) # <<>> /\ RowsOf(db', s) = <<>>

\* C30: a step changes the rows of no session but the one it operates on,
\* and the window of a session is the window of the table that holds only
\* that session's rows, made of messages committed under that session
C30_SessionsIsolated ==
    /\ [][\A b \in AllSessionIds :
            RowsOf(db', b) # RowsOf(db, b) => OperatesOn(b)]_vars
    /\ [](\A b \in AllSessionIds :
            /\ GetHistory(db, b, N) = GetHistory(RowsOf(db, b), b, N)
            /\ \A k \in 1..Len(GetHistory(db, b, N)) :
                  \E j \in 1..Len(db) :
                      /\ db[j].sid = b
                      /\ db[j].content = <<"json", GetHistory(db, b, N)[k]>>)

\* both sessions hold rows, a read of one session has returned a window,
\* and then the other session was cleared
C30_Witness ==
    /\ env = "isolation"
    /\ RowsOf(db, "s2") # <<>>
    /\ RowsOf(db, "s1") = <<>>
    /\ \E t \in Turns : turn[t].sid = "s1" /\ turn[t].pc = "done"
    /\ rdLog # <<>>
    /\ rdWindow = GetHistory(db, "s2", N)
    /\ Len(rdLog) > Len(rdWindow)

====
